---- MODULE Spec2Model ----
(***************************************************************************)
(* ExtHostDocumentData (src/vs/workbench/api/node/extHostDocumentData.ts): *)
(* the extension host's mirror of a text document.  Line text is a         *)
(* sequence of one-character strings, line and character indices are       *)
(* 0-based as in the source (TLA+ sequences are 1-based, so line i of the  *)
(* source is lines[i + 1]).                                                *)
(*                                                                         *)
(* Object identity (===) is modelled by a field `ref` (positions, ranges)  *)
(* or `id` (line descriptors): two values are the same object iff the      *)
(* fields agree.                                                           *)
(***************************************************************************)
EXTENDS Integers, Sequences, FiniteSets, TLC

\* ---------------------------------------------------------------- bounds
MaxLines == 3
MaxLineLen == 2
CacheMaxLines == 2

\* ---------------------------------------------------------------- state
VARIABLES
    lines,        \* MirrorModel2._lines: the line strings
    eol,          \* MirrorModel2._eol: the terminator string
    languageId,   \* ExtHostDocumentData._languageId
    wordDefs,     \* _modeId2WordDefinition
    isDirty,      \* ExtHostDocumentData._isDirty
    textLines,    \* ExtHostDocumentData._textLines: the descriptor cache
    call,         \* the last operation called, its arguments and its result
    held          \* a descriptor an extension kept from an earlier lineAt

vars == <<lines, eol, languageId, wordDefs, isDirty, textLines, call, held>>

\* ---------------------------------------------------------------- values
Min(a, b) == IF a < b THEN a ELSE b
Max(a, b) == IF a > b THEN a ELSE b

\* new Position(line, character): a freshly allocated position.
Position(line, character) ==
    [line |-> line, character |-> character, ref |-> "new"]

\* new Range(startLine, startCharacter, endLine, endCharacter): a freshly
\* allocated range over two freshly allocated positions.
Range(startLine, startCharacter, endLine, endCharacter) ==
    [start |-> Position(startLine, startCharacter),
     end   |-> Position(endLine, endCharacter),
     ref   |-> "new"]

\* Range.isEmpty and Range.isSingleLine.
isEmpty(range) ==
    /\ range.start.line = range.end.line
    /\ range.start.character = range.end.character
isSingleLine(range) == range.start.line = range.end.line

\* String.prototype.substring(from, to): both ends clamped into [0, length]
\* and swapped when from > to.
substring(text, from, to) ==
    LET a == Max(0, Min(from, Len(text)))
        b == Max(0, Min(to, Len(text)))
    IN  SubSeq(text, Min(a, b) + 1, Max(a, b))

\* Array.prototype.join(separator) on an array of strings.
RECURSIVE join(_, _)
join(parts, separator) ==
    IF Len(parts) = 0 THEN <<>>
    ELSE IF Len(parts) = 1 THEN parts[1]
    ELSE parts[1] \o separator \o join(Tail(parts), separator)

\* ------------------------------------------------------- the line store
lineCount == Len(lines)
Line(i) == lines[i + 1]

\* MirrorModel2.getText(): the lines joined with the terminator.
getText == join(lines, eol)

\* PrefixSumComputer.getAccumulatedValue(index) over the values
\* length(line) + length(eol) that _ensureLineStarts builds: the sum of the
\* values at 0..index, 0 for index -1.
RECURSIVE getAccumulatedValue(_)
getAccumulatedValue(index) ==
    IF index < 0 THEN 0
    ELSE getAccumulatedValue(index - 1) + Len(Line(index)) + Len(eol)

\* PrefixSumComputer.getIndexOf(offset): the line whose span (text and
\* terminator) holds the offset, and the offset within that line; an offset
\* at or past the total falls to the last line.
getIndexOf(offset) ==
    LET holds(i) == /\ getAccumulatedValue(i - 1) <= offset
                    /\ offset < getAccumulatedValue(i)
        index == IF \E i \in 0..(lineCount - 1) : holds(i)
                 THEN CHOOSE i \in 0..(lineCount - 1) : holds(i)
                 ELSE lineCount - 1
    IN  [index |-> index, remainder |-> offset - getAccumulatedValue(index - 1)]

\* ------------------------------------------------ position / range math
\* The same coordinates, whichever object carries them.
SamePos(a, b) == a.line = b.line /\ a.character = b.character

\* Lexicographic (line, then character) order.
PosLeq(a, b) ==
    \/ a.line < b.line
    \/ a.line = b.line /\ a.character <= b.character

\* A position of the document's valid domain.
IsValidPosition(p) ==
    /\ 0 <= p.line /\ p.line < lineCount
    /\ 0 <= p.character /\ p.character <= Len(Line(p.line))

\* ---- mutants of validatePosition
\* the too-large-line clamp lands one past the end of the last line
validatePosition_pastEnd(position) ==
    IF position.line < 0 THEN Position(0, 0)
    ELSE IF position.line >= lineCount
    THEN Position(lineCount - 1, Len(Line(lineCount - 1)) + 1)
    ELSE IF position.character < 0 THEN Position(position.line, 0)
    ELSE IF position.character > Len(Line(position.line))
    THEN Position(position.line, Len(Line(position.line)))
    ELSE position

\* the short-circuit is lost: the result is always reconstructed
validatePosition_rebuild(position) ==
    IF position.line < 0 THEN Position(0, 0)
    ELSE IF position.line >= lineCount
    THEN Position(lineCount - 1, Len(Line(lineCount - 1)))
    ELSE Position(position.line,
                  Max(0, Min(position.character, Len(Line(position.line)))))

\* a negative line is clamped to line 0 and the character is clamped on
\* that line instead of being reset to 0
validatePosition_keepChar(position) ==
    IF position.line < 0
    THEN Position(0, Max(0, Min(position.character, Len(Line(0)))))
    ELSE IF position.line >= lineCount
    THEN Position(lineCount - 1, Len(Line(lineCount - 1)))
    ELSE IF position.character < 0 THEN Position(position.line, 0)
    ELSE IF position.character > Len(Line(position.line))
    THEN Position(position.line, Len(Line(position.line)))
    ELSE position

\* validatePosition(position): the argument itself when nothing changed
\* (hasChanged stays false), a new Position otherwise.
validatePosition(position) ==
    IF position.line < 0 THEN Position(0, 0)
    ELSE IF position.line >= lineCount
    THEN Position(lineCount - 1, Len(Line(lineCount - 1)))
    ELSE LET maxCharacter == Len(Line(position.line))
         IN  IF position.character < 0 THEN Position(position.line, 0)
             ELSE IF position.character > maxCharacter
             THEN Position(position.line, maxCharacter)
             ELSE position

\* validateRange(range): `start === range.start && end === range.end`
\* compares objects, here the records with their ref.
validateRange(range) ==
    LET start == validatePosition(range.start)
        end   == validatePosition(range.end)
    IN  IF start = range.start /\ end = range.end
        THEN range
        ELSE Range(start.line, start.character, end.line, end.character)

\* ------------------------------------------------------ offset converter
\* mutant: the prefix sum is taken up to the position's own line
offsetAt_ownLine(position) ==
    LET p == validatePosition(position)
    IN  getAccumulatedValue(p.line) + p.character

offsetAt(position) ==
    LET p == validatePosition(position)
    IN  getAccumulatedValue(p.line - 1) + p.character

\* mutant: the remainder is not clamped to the line length
positionAt_noClamp(offset) ==
    LET out == getIndexOf(Max(0, offset))
    IN  Position(out.index, out.remainder)

\* positionAt(offset); offsets are integers here, so Math.floor is the
\* identity.
positionAt(offset) ==
    LET out == getIndexOf(Max(0, offset))
        lineLength == Len(Line(out.index))
    IN  Position(out.index, Min(out.remainder, lineLength))

\* --------------------------------------------------- range text extractor
\* resultLines of _getTextInRange for the lines startLineIndex + 1 ..
\* endLineIndex - 1 (the for loop).
RECURSIVE middleLines(_, _)
middleLines(i, endLineIndex) ==
    IF i < endLineIndex THEN <<Line(i)>> \o middleLines(i + 1, endLineIndex)
    ELSE <<>>

\* mutant: the loop also pushes the end line in full
getTextInRange_loopToEnd(_range) ==
    LET range == validateRange(_range)
    IN  IF isEmpty(range) THEN <<>>
        ELSE IF isSingleLine(range)
        THEN substring(Line(range.start.line),
                       range.start.character, range.end.character)
        ELSE join(<<substring(Line(range.start.line), range.start.character,
                              Len(Line(range.start.line)))>>
                  \o middleLines(range.start.line + 1, range.end.line + 1)
                  \o <<substring(Line(range.end.line), 0, range.end.character)>>,
                  eol)

getTextInRange(_range) ==
    LET range == validateRange(_range)
    IN  IF isEmpty(range) THEN <<>>
        ELSE IF isSingleLine(range)
        THEN substring(Line(range.start.line),
                       range.start.character, range.end.character)
        ELSE join(<<substring(Line(range.start.line), range.start.character,
                              Len(Line(range.start.line)))>>
                  \o middleLines(range.start.line + 1, range.end.line)
                  \o <<substring(Line(range.end.line), 0, range.end.character)>>,
                  eol)

\* ------------------------------------------------------------ documents
None == [id |-> -1]
NoCall == [op |-> "none"]
NoCache == [i \in 1..CacheMaxLines |-> None]

\* The language ids of the model, and `undefined`: an absent regexp
\* argument, and what Map.get answers for a mode without an entry.
LanguageIds == {"plaintext", "typescript"}
Undefined == [undefined |-> TRUE]
NoWordDefs == [modeId \in LanguageIds |-> Undefined]

\* The terminators a line store carries.
Eols == {<<"\n">>, <<"\r", "\n">>}

\* Line text of length k for line i: a run of the letters a, b, c that
\* starts at a different letter on each line, so that neither two lines
\* nor two columns of a line read alike.
Letters == <<"a", "b", "c">>
RulerText(i, k) == [j \in 1..k |-> Letters[((i + j - 1) % Len(Letters)) + 1]]

\* The documents of the addressing operations: 1..MaxLines lines of
\* 0..MaxLineLen characters each.
AddrDocs ==
    { [i \in 1..n |-> RulerText(i - 1, f[i])] :
        n \in 1..MaxLines, f \in [1..MaxLines -> 0..MaxLineLen] }

\* The arguments: positions on and around the document (one line and one
\* column beyond each edge), ordered ranges of them, offsets up to past the
\* end of the text.
ArgPositions ==
    [line : -1..MaxLines, character : -1..(MaxLineLen + 1), ref : {"p"}]
ArgRanges ==
    { [start |-> [s EXCEPT !.ref = "r.start"],
       end   |-> [e EXCEPT !.ref = "r.end"],
       ref   |-> "r"] :
        <<s, e>> \in {pq \in ArgPositions \X ArgPositions : PosLeq(pq[1], pq[2])} }
ArgOffsets == -1..(getAccumulatedValue(lineCount - 1) + 1)

\* --------------------------------------------- addressing: specification
\* The addressing operations read the document and change nothing of it:
\* a behaviour draws a document and applies one operation to one argument.
InitAddr ==
    /\ lines \in AddrDocs
    /\ eol \in Eols
    /\ languageId = "plaintext"
    /\ wordDefs = NoWordDefs
    /\ textLines = NoCache
    /\ call = NoCall
    /\ isDirty = FALSE
    /\ held = None

ValidatePosition(position) ==
    /\ call = NoCall
    /\ call' = [op |-> "validatePosition", arg |-> position,
                result |-> validatePosition(position)]
    /\ UNCHANGED <<lines, eol, languageId, wordDefs, isDirty, textLines, held>>

ValidateRange(range) ==
    /\ call = NoCall
    /\ call' = [op |-> "validateRange", arg |-> range,
                result |-> validateRange(range)]
    /\ UNCHANGED <<lines, eol, languageId, wordDefs, isDirty, textLines, held>>

OffsetAt(position) ==
    /\ call = NoCall
    /\ call' = [op |-> "offsetAt", arg |-> position,
                result |-> offsetAt(position)]
    /\ UNCHANGED <<lines, eol, languageId, wordDefs, isDirty, textLines, held>>

PositionAt(offset) ==
    /\ call = NoCall
    /\ call' = [op |-> "positionAt", arg |-> offset,
                result |-> positionAt(offset)]
    /\ UNCHANGED <<lines, eol, languageId, wordDefs, isDirty, textLines, held>>

GetTextInRange(range) ==
    /\ call = NoCall
    /\ call' = [op |-> "getTextInRange", arg |-> range,
                result |-> getTextInRange(range)]
    /\ UNCHANGED <<lines, eol, languageId, wordDefs, isDirty, textLines, held>>

NextAddr ==
    \/ \E position \in ArgPositions : ValidatePosition(position)
    \/ \E range \in ArgRanges : ValidateRange(range)
    \/ \E position \in ArgPositions : OffsetAt(position)
    \/ \E offset \in ArgOffsets : PositionAt(offset)
    \/ \E range \in ArgRanges : GetTextInRange(range)

SpecAddr == InitAddr /\ [][NextAddr]_vars

\* ------------------------------------------------- addressing: properties
\* The characters of `text` from offset `from` up to, not including, `to`.
Slice(text, from, to) == SubSeq(text, from + 1, to)

\* The offset of the first character of line i, read off the document text:
\* the length of lines 0..i-1 joined, each followed by the terminator.
StartOf(i) == Len(join(SubSeq(lines, 1, i) \o <<<<>>>>, eol))
EndOf(i) == StartOf(i) + Len(Line(i))

\* The length of the document text.
totalLength == Len(getText)

\* The offset lies strictly inside the terminator that follows line i.
InTerminatorOf(offset, i) == EndOf(i) < offset /\ offset < StartOf(i + 1)

\* Lines i .. j-1, each followed by the terminator.
RECURSIVE FullLines(_, _)
FullLines(i, j) ==
    IF i >= j THEN <<>> ELSE Line(i) \o eol \o FullLines(i + 1, j)

\* C1: for every valid position p, positionAt(offsetAt(p)) is p.
C1_PositionRoundTrip ==
    (call.op = "offsetAt" /\ IsValidPosition(call.arg))
        => SamePos(positionAt(call.result), call.arg)

\* offsetAt was called for the end of a non-empty line after the first, in
\* a document with a two-character terminator.
C1_Witness ==
    /\ call.op = "offsetAt"
    /\ IsValidPosition(call.arg)
    /\ call.arg.line >= 1
    /\ call.arg.character = Len(Line(call.arg.line))
    /\ call.arg.character > 0
    /\ Len(eol) = 2

\* C5: validatePosition is idempotent, whatever the position.
C5_ValidatePositionIdempotent ==
    call.op = "validatePosition"
        => SamePos(validatePosition(call.result), call.result)

\* validatePosition was called with a line past the end and clamped it.
C5_Witness ==
    /\ call.op = "validatePosition"
    /\ call.arg.line >= lineCount
    /\ call.result.line = lineCount - 1
    /\ call.result.character > 0

\* C6: validatePosition returns its argument itself exactly when the
\* argument is valid and a new position otherwise; validateRange returns its
\* argument itself exactly when validatePosition changes neither endpoint,
\* and otherwise a new range over the two validated endpoints.
C6_IdentityPreserved ==
    /\ call.op = "validatePosition" =>
        /\ IsValidPosition(call.arg) => call.result = call.arg
        /\ ~IsValidPosition(call.arg) =>
            /\ call.result.ref = "new"
            /\ call.result.ref # call.arg.ref
    /\ call.op = "validateRange" =>
        LET start == validatePosition(call.arg.start)
            end   == validatePosition(call.arg.end)
            unchanged == /\ SamePos(start, call.arg.start)
                         /\ SamePos(end, call.arg.end)
        IN  /\ unchanged => call.result = call.arg
            /\ ~unchanged =>
                /\ call.result.ref = "new"
                /\ call.result.ref # call.arg.ref
                /\ SamePos(call.result.start, start)
                /\ SamePos(call.result.end, end)

\* validateRange was called with a valid start and an end it had to clamp.
C6_Witness ==
    /\ call.op = "validateRange"
    /\ IsValidPosition(call.arg.start)
    /\ ~IsValidPosition(call.arg.end)
    /\ call.result.ref = "new"

\* C7: for every offset o in [0, totalLength], positionAt(o) is a valid
\* position, offsetAt of it leads back to the same position, and
\* offsetAt(positionAt(o)) is o, or the end-of-line offset of the line when
\* o lies inside that line's terminator.
C7_OffsetRoundTrip ==
    (call.op = "positionAt" /\ 0 <= call.arg /\ call.arg <= totalLength) =>
        /\ IsValidPosition(call.result)
        /\ SamePos(positionAt(offsetAt(call.result)), call.result)
        /\ IF \E i \in 0..(lineCount - 2) : InTerminatorOf(call.arg, i)
           THEN /\ InTerminatorOf(call.arg, call.result.line)
                /\ offsetAt(call.result) = EndOf(call.result.line)
           ELSE offsetAt(call.result) = call.arg

\* positionAt was called with an offset inside the terminator of a
\* non-empty line.
C7_Witness ==
    /\ call.op = "positionAt"
    /\ 0 <= call.arg /\ call.arg <= totalLength
    /\ \E i \in 0..(lineCount - 2) :
        InTerminatorOf(call.arg, i) /\ Len(Line(i)) > 0

\* C9: for every range with start <= end, getTextInRange is the slice of
\* the document text from offsetAt(start) to offsetAt(end): empty for an
\* empty validated range, a part of one line for a single-line range, and
\* else the tail of the start line, the full lines in between and the head
\* of the end line, joined with the terminator.
C9_TextInRangeIsSlice ==
    (call.op = "getTextInRange" /\ PosLeq(call.arg.start, call.arg.end)) =>
        LET v == validateRange(call.arg)
        IN  /\ call.result = Slice(getText, offsetAt(call.arg.start),
                                   offsetAt(call.arg.end))
            /\ isEmpty(v) => call.result = <<>>
            /\ isSingleLine(v) =>
                call.result = SubSeq(Line(v.start.line),
                                     v.start.character + 1, v.end.character)
            /\ ~isSingleLine(v) =>
                call.result =
                    SubSeq(Line(v.start.line), v.start.character + 1,
                           Len(Line(v.start.line)))
                    \o eol \o FullLines(v.start.line + 1, v.end.line)
                    \o SubSeq(Line(v.end.line), 1, v.end.character)

\* getTextInRange was called for a range from inside one line, over a
\* non-empty line, into a third line.
C9_Witness ==
    /\ call.op = "getTextInRange"
    /\ IsValidPosition(call.arg.start) /\ IsValidPosition(call.arg.end)
    /\ call.arg.end.line = call.arg.start.line + 2
    /\ call.arg.start.character > 0
    /\ call.arg.end.character > 0
    /\ Len(Line(call.arg.start.line + 1)) > 0
    /\ Len(call.result) > Len(Line(call.arg.start.line + 1))

\* C10: for every range with start <= end, validateRange returns a range
\* with both endpoints valid and start <= end.
C10_ValidateRangeOrdered ==
    (call.op = "validateRange" /\ PosLeq(call.arg.start, call.arg.end)) =>
        /\ IsValidPosition(call.result.start)
        /\ IsValidPosition(call.result.end)
        /\ PosLeq(call.result.start, call.result.end)

\* validateRange was called with a start before the first line whose
\* character is larger than that of the end on line 0, a non-empty line.
C10_Witness ==
    /\ call.op = "validateRange"
    /\ call.arg.start.line < 0
    /\ call.arg.end.line = 0
    /\ call.arg.start.character > call.arg.end.character
    /\ call.arg.end.character >= 0
    /\ Len(Line(0)) > 0
    /\ SamePos(call.result.start, call.result.end)

\* -------------------------------------------------- line descriptor cache
\* The characters \s matches (ECMAScript WhiteSpace and LineTerminator).  A
\* character that has no escape in a TLA+ string is written as its code
\* point, one string per character.
WhitespaceChars ==
    {" ", "\t", "\n", "\f", "\r", "U+000B", "U+00A0", "U+1680",
     "U+2000", "U+2001", "U+2002", "U+2003", "U+2004", "U+2005", "U+2006",
     "U+2007", "U+2008", "U+2009", "U+200A", "U+2028", "U+2029", "U+202F",
     "U+205F", "U+3000", "U+FEFF"}
IsWhitespace(c) == c \in WhitespaceChars

\* /^(\s*)/.exec(text)[1].length: the length of the leading whitespace run.
RECURSIVE leadingWhitespace(_)
leadingWhitespace(text) ==
    IF Len(text) > 0 /\ IsWhitespace(Head(text))
    THEN 1 + leadingWhitespace(Tail(text))
    ELSE 0

\* Descriptors are frozen and compared by object.  A descriptor that lineAt
\* builds for `line` replaces the one in the cache slot, which differs from
\* it in text, and descriptors of different lines differ in lineNumber;
\* the one other descriptor it can be compared with is the one the
\* extension kept, so the new object takes the first id that one does not
\* have.
FreshId(line) ==
    IF held # None /\ held.desc.lineNumber = line /\ held.desc.id = 0
    THEN 1 ELSE 0

\* mutant: the cached text is not compared with the live line
needsRecompute_noText(result, line) ==
    \/ result = None
    \/ result.lineNumber # line

\* mutant: the cache is never used
needsRecompute_always(result, line) == TRUE

\* `!result || result.lineNumber !== line || result.text !== this._lines[line]`
needsRecompute(result, line) ==
    \/ result = None
    \/ result.lineNumber # line
    \/ result.text # Line(line)

\* The frozen descriptor lineAt builds for `line`, as the object `id`.
newTextLine(line, id) ==
    LET text == Line(line)
        firstNonWhitespaceCharacterIndex == leadingWhitespace(text)
        range == Range(line, 0, line, Len(text))
        rangeIncludingLineBreak ==
            IF line < lineCount - 1 THEN Range(line, 0, line + 1, 0) ELSE range
    IN  [id |-> id,
         lineNumber |-> line,
         range |-> range,
         rangeIncludingLineBreak |-> rangeIncludingLineBreak,
         text |-> text,
         firstNonWhitespaceCharacterIndex |-> firstNonWhitespaceCharacterIndex,
         isEmptyOrWhitespace |-> firstNonWhitespaceCharacterIndex = Len(text)]

\* What the extension knows of the descriptor it kept: whether the
\* descriptor's line read differently (or was gone) at some moment since,
\* whether lineAt was called for that line at such a moment, and whether the
\* document data was disposed since.
Hold(desc) ==
    [desc |-> desc, edited |-> FALSE, recalled |-> FALSE, disposed |-> FALSE]

Differs(newLines, h) ==
    \/ h.desc.lineNumber >= Len(newLines)
    \/ newLines[h.desc.lineNumber + 1] # h.desc.text

HeldAfterChange(newLines) ==
    IF held = None THEN None
    ELSE [held EXCEPT !.edited = @ \/ Differs(newLines, held)]

HeldAfterLineAt(line) ==
    IF held = None THEN None
    ELSE [held EXCEPT !.recalled =
              @ \/ (line = held.desc.lineNumber /\ Differs(lines, held))]

\* lineAt(lineOrPosition), with a line number or a Position; `keep` is the
\* extension's choice to hold on to the descriptor it gets.
LineAt(lineOrPosition, isPosition, keep) ==
    LET line == IF isPosition THEN lineOrPosition.line ELSE lineOrPosition
    IN  IF line < 0 \/ line >= lineCount
        THEN /\ call' = [op |-> "lineAt", arg |-> line,
                         result |-> [id |-> -1, error |-> "Illegal value for line"]]
             /\ UNCHANGED <<lines, eol, languageId, wordDefs, isDirty,
                             textLines, held>>
        ELSE LET cached == textLines[line + 1]
                 result == IF needsRecompute(cached, line)
                           THEN newTextLine(line, FreshId(line))
                           ELSE cached
             IN  /\ textLines' = [textLines EXCEPT ![line + 1] = result]
                 /\ call' = [op |-> "lineAt", arg |-> line, result |-> result]
                 /\ held' = IF keep THEN Hold(result) ELSE HeldAfterLineAt(line)
                 /\ UNCHANGED <<lines, eol, languageId, wordDefs, isDirty>>

\* dispose(): `this._textLines.length = 0` empties the cache and the dirty
\* flag is cleared; the line store is owned by the base class, whose dispose
\* leaves the lines to read.
Dispose ==
    /\ textLines' = NoCache
    /\ isDirty' = FALSE
    /\ call' = [op |-> "dispose"]
    /\ held' = IF held = None THEN None ELSE [held EXCEPT !.disposed = TRUE]
    /\ UNCHANGED <<lines, eol, languageId, wordDefs>>

\* _acceptIsDirty(isDirty)
AcceptIsDirty(newIsDirty) ==
    /\ isDirty' = newIsDirty
    /\ call' = [op |-> "_acceptIsDirty"]
    /\ UNCHANGED <<lines, eol, languageId, wordDefs, textLines, held>>

\* ---- the line store's changes (MirrorModel2.onEvents)
Changed(newLines) ==
    /\ lines' = newLines
    /\ call' = [op |-> "onEvents"]
    /\ held' = HeldAfterChange(newLines)
    /\ UNCHANGED <<eol, languageId, wordDefs, textLines, isDirty>>

\* An edit replaces the text of line i.
EditLine(i, text) ==
    /\ i < lineCount
    /\ text # Line(i)
    /\ Changed([lines EXCEPT ![i + 1] = text])

\* An edit appends a line.
AppendLine(text) ==
    /\ lineCount < CacheMaxLines
    /\ Changed(Append(lines, text))

\* An edit removes line i; the lines after it move up.
RemoveLine(i) ==
    /\ lineCount > 1
    /\ i < lineCount
    /\ Changed(SubSeq(lines, 1, i) \o SubSeq(lines, i + 2, lineCount))

\* The line texts of the cache's documents: an empty line and a word
\* indented by a space and a form feed, which differ in length, in leading
\* whitespace and in being blank.
LineTexts == {<<>>, <<" ", "\f", "a">>}
CacheDocs == UNION {[1..n -> LineTexts] : n \in 1..CacheMaxLines}

InitCache ==
    /\ lines \in CacheDocs
    /\ eol = <<"\n">>
    /\ languageId = "plaintext"
    /\ wordDefs = NoWordDefs
    /\ textLines = NoCache
    /\ call = NoCall
    /\ isDirty = FALSE
    /\ held = None

NextCache ==
    \/ \E line \in -1..CacheMaxLines, keep \in BOOLEAN :
        LineAt(line, FALSE, keep)
    \/ \E line \in 0..(CacheMaxLines - 1) :
        LineAt(Position(line, 0), TRUE, FALSE)
    \/ \E i \in 0..(CacheMaxLines - 1), text \in LineTexts : EditLine(i, text)
    \/ \E text \in LineTexts : AppendLine(text)
    \/ \E i \in 0..(CacheMaxLines - 1) : RemoveLine(i)
    \/ Dispose

SpecCache == InitCache /\ [][NextCache]_vars

\* ------------------------------------------------------ cache: properties
\* lineAt returned a descriptor (it did not throw).
Returned == call.op = "lineAt" /\ call.result.id # -1

\* The step is a call lineAt(i) that returns a descriptor.
LineAtStep(i) ==
    /\ call'.op = "lineAt"
    /\ call'.arg = i
    /\ call'.result.id # -1

\* The extension kept a descriptor of line i.
Kept(i) == held # None /\ held.desc.lineNumber = i

\* The number of leading whitespace characters of a text, and whether the
\* text has nothing else.
LeadingBlanks(text) ==
    CHOOSE k \in 0..Len(text) :
        /\ \A j \in 1..k : IsWhitespace(text[j])
        /\ k < Len(text) => ~IsWhitespace(text[k + 1])
IsBlank(text) == \A j \in 1..Len(text) : IsWhitespace(text[j])

\* C2: the descriptor lineAt(i) returns has rangeIncludingLineBreak from
\* (i, 0) to (i + 1, 0) when line i is not the last line of the document as
\* it is now, and equal to its range (i, 0)-(i, length) when it is.
C2_RangeIncludingLineBreak ==
    Returned =>
        LET i == call.arg
        IN  call.result.rangeIncludingLineBreak =
                IF i < lineCount - 1
                THEN Range(i, 0, i + 1, 0)
                ELSE Range(i, 0, i, Len(Line(i)))

\* The claim about a descriptor returned again, and the claim about a new
\* one: once the text of line i differs from the cached descriptor's,
\* lineAt(i) returns a new descriptor, not the cached one, with the text,
\* range, firstNonWhitespaceCharacterIndex and isEmptyOrWhitespace of the
\* live text.
FreshAfterEdit(i) ==
    (textLines[i + 1] # None /\ textLines[i + 1].text # Line(i)) =>
        /\ call'.result # textLines[i + 1]
        /\ Kept(i) => call'.result # held.desc
        /\ call'.result.lineNumber = i
        /\ call'.result.text = Line(i)
        /\ call'.result.range = Range(i, 0, i, Len(Line(i)))
        /\ call'.result.firstNonWhitespaceCharacterIndex
               = LeadingBlanks(Line(i))
        /\ call'.result.isEmptyOrWhitespace = IsBlank(Line(i))

\* C3 as stated: lineAt(i) returns the descriptor it returned before as long
\* as the content of the line has not changed in between; and once the text
\* of line i has changed, lineAt(i) returns a new, correctly computed
\* descriptor.
C3_CachedThenFresh ==
    [][\A i \in 0..(lineCount - 1) :
         LineAtStep(i) =>
            /\ (Kept(i) /\ ~held.edited) => call'.result = held.desc
            /\ FreshAfterEdit(i)
      ]_vars

\* C3 amended: ... as long as the content of the line has not changed and
\* the document data has not been disposed in between; ...
C3_CachedUnlessDisposedThenFresh ==
    [][\A i \in 0..(lineCount - 1) :
         LineAtStep(i) =>
            /\ (Kept(i) /\ ~held.edited /\ ~held.disposed) =>
                call'.result = held.desc
            /\ FreshAfterEdit(i)
      ]_vars

\* lineAt returned a descriptor for a line whose text is no longer the one
\* of the descriptor the extension kept of that line.
C3_Witness ==
    /\ Returned
    /\ Kept(call.arg)
    /\ held.edited /\ held.recalled
    /\ call.result.text # held.desc.text
    /\ call.result.text = Line(call.arg)

\* C4 as stated: once line i reads again as it read when lineAt(i) returned
\* the descriptor the extension kept, lineAt(i) returns that descriptor,
\* whatever happened in between.
C4_RevertedReturnsKept ==
    [][\A i \in 0..(lineCount - 1) :
         (/\ LineAtStep(i)
          /\ Kept(i) /\ held.edited
          /\ Line(i) = held.desc.text) => call'.result = held.desc
      ]_vars

\* C4 amended: ... provided that in between lineAt(i) was not called at a
\* moment when the line read differently and the document data was not
\* disposed.
C4_RevertedReturnsKeptUnlessDropped ==
    [][\A i \in 0..(lineCount - 1) :
         (/\ LineAtStep(i)
          /\ Kept(i) /\ held.edited /\ ~held.recalled /\ ~held.disposed
          /\ Line(i) = held.desc.text) => call'.result = held.desc
      ]_vars

\* lineAt returned the kept descriptor after its line had read differently.
C4_Witness ==
    /\ Returned
    /\ Kept(call.arg)
    /\ held.edited /\ ~held.recalled /\ ~held.disposed
    /\ call.result = held.desc

\* ---------------------------------------------------- word-boundary locator
\* A word pattern is a character class repeated: [chars]+, or [chars]*
\* when `loops`, which matches the empty string.
WordChars == {"a", "b", "c"}
WordPattern  == [chars |-> WordChars, loops |-> FALSE]
DashPattern  == [chars |-> WordChars \cup {"-"}, loops |-> FALSE]
LoopPattern  == [chars |-> WordChars, loops |-> TRUE]
RegExps == {WordPattern, DashPattern, LoopPattern}

\* wordHelper's DEFAULT_WORD_REGEXP.
DEFAULT_WORD_REGEXP == WordPattern

\* strings.regExpLeadsToEndlessLoop(regexp): the static verdict that the
\* pattern does not advance.
regExpLeadsToEndlessLoop(regexp) == regexp.loops

\* getWordDefinitionFor(modeId): _modeId2WordDefinition.get(modeId).
getWordDefinitionFor(modeId) == wordDefs[modeId]

\* wordHelper.ensureValidWordDefinition(wordDefinition): the default
\* pattern when none is given.
ensureValidWordDefinition(wordDefinition) ==
    IF wordDefinition = Undefined THEN DEFAULT_WORD_REGEXP ELSE wordDefinition

\* wordHelper.getWordAtText(column, wordDefinition, text, 0): the maximal
\* non-empty match that contains or touches the 1-based column, as 1-based
\* start and end columns; null when none does, and no answer at all when
\* none does and the pattern does not advance.
getWordAtText(column, wordDefinition, text) ==
    LET pos == column - 1
        inWord(j) == text[j] \in wordDefinition.chars
        s == CHOOSE s \in 0..pos :
                 /\ \A j \in (s + 1)..pos : inWord(j)
                 /\ s > 0 => ~inWord(s)
        e == CHOOSE e \in pos..Len(text) :
                 /\ \A j \in (pos + 1)..e : inWord(j)
                 /\ e < Len(text) => ~inWord(e + 1)
    IN  IF s < e THEN [startColumn |-> s + 1, endColumn |-> e + 1]
        ELSE IF wordDefinition.loops THEN [hangs |-> TRUE]
        ELSE [null |-> TRUE]

\* setWordDefinitionFor(modeId, wordDefinition)
SetWordDefinitionFor(modeId, wordDefinition) ==
    /\ wordDefs' = [wordDefs EXCEPT ![modeId] = wordDefinition]
    /\ call' = [op |-> "setWordDefinitionFor"]
    /\ UNCHANGED <<lines, eol, languageId, textLines, held, isDirty>>

\* _acceptLanguageId(newLanguageId)
AcceptLanguageId(newLanguageId) ==
    /\ languageId' = newLanguageId
    /\ call' = [op |-> "_acceptLanguageId"]
    /\ UNCHANGED <<lines, eol, wordDefs, textLines, held, isDirty>>

\* getWordRangeAtPosition(_position, regexp); `pattern` is the word
\* definition handed to getWordAtText.
GetWordRangeAtPosition(_position, regexp) ==
    LET position == validatePosition(_position)
        chosen == IF regexp = Undefined \/ regExpLeadsToEndlessLoop(regexp)
                  THEN getWordDefinitionFor(languageId)
                  ELSE regexp
        pattern == ensureValidWordDefinition(chosen)
        wordAtText == getWordAtText(position.character + 1, pattern,
                                    Line(position.line))
        result == IF wordAtText = [null |-> TRUE] THEN Undefined
                  ELSE IF wordAtText = [hangs |-> TRUE] THEN wordAtText
                  ELSE Range(position.line, wordAtText.startColumn - 1,
                             position.line, wordAtText.endColumn - 1)
    IN  /\ call' = [op |-> "getWordRangeAtPosition", arg |-> _position,
                    regexp |-> regexp, pattern |-> pattern, result |-> result]
        /\ UNCHANGED <<lines, eol, languageId, wordDefs, isDirty, textLines, held>>

\* The documents of the word locator: words between blanks and dashes.
WordDocs == { << <<" ", " ", "a", "b", "c", " ", "b", "a">>, <<"b", "a", "c">> >>,
              << <<"a", "-", "b">> >> }

WordPositions ==
    [line : -1..lineCount, character : {-1, 0, 2, 3, 5, 9}, ref : {"p"}]

InitWord ==
    /\ lines \in WordDocs
    /\ eol = <<"\n">>
    /\ languageId \in LanguageIds
    /\ wordDefs = NoWordDefs
    /\ textLines = NoCache
    /\ call = NoCall
    /\ isDirty = FALSE
    /\ held = None

NextWord ==
    \/ \E modeId \in LanguageIds, wordDefinition \in RegExps :
        SetWordDefinitionFor(modeId, wordDefinition)
    \/ \E newLanguageId \in LanguageIds : AcceptLanguageId(newLanguageId)
    \/ \E newIsDirty \in BOOLEAN : AcceptIsDirty(newIsDirty)
    \/ Dispose
    \/ \E position \in WordPositions, regexp \in RegExps \cup {Undefined} :
        GetWordRangeAtPosition(position, regexp)

SpecWord == InitWord /\ [][NextWord]_vars

\* C8: the pattern handed to the word scan is never one the endless-loop
\* heuristic flags; and when the supplied regexp is absent or flagged, it is
\* the pattern registered for the document's language id, or the default
\* pattern when none is registered.
C8_NoLoopingPatternScanned ==
    call.op = "getWordRangeAtPosition" =>
        /\ ~regExpLeadsToEndlessLoop(call.pattern)
        /\ (call.regexp = Undefined \/ regExpLeadsToEndlessLoop(call.regexp)) =>
            call.pattern = IF wordDefs[languageId] = Undefined
                           THEN DEFAULT_WORD_REGEXP
                           ELSE wordDefs[languageId]

\* The second half of C8 alone, which the code keeps: an absent or flagged
\* regexp is replaced by the registered pattern, or the default one.
FallbackIsRegisteredPattern ==
    (/\ call.op = "getWordRangeAtPosition"
     /\ call.regexp = Undefined \/ regExpLeadsToEndlessLoop(call.regexp)) =>
        call.pattern = IF wordDefs[languageId] = Undefined
                       THEN DEFAULT_WORD_REGEXP
                       ELSE wordDefs[languageId]

\* The example of the specification: the word at (0, 3) of "  foo bar" is
\* (0, 2)-(0, 5) under the default pattern.
WordExample ==
    (/\ call.op = "getWordRangeAtPosition"
     /\ Len(lines) = 2
     /\ call.pattern = WordPattern
     /\ call.arg.line = 0 /\ call.arg.character = 3) =>
        call.result = Range(0, 2, 0, 5)

====
